---- MODULE Spec2Model ----
(***************************************************************************)
(* The reward / withdrawal transaction engine of the survey platform:      *)
(* the two transactional HTTP handlers (POST /api/surveys/:id/submit and   *)
(* POST /api/withdrawals) running on pooled PostgreSQL connections, and    *)
(* the SQL functions of the schema.  A transaction is a connection with a  *)
(* write set: its statements read the committed tables plus its own        *)
(* writes (READ COMMITTED), COMMIT appends the write set to the committed  *)
(* tables and ROLLBACK drops it.  Money is in whole EUR.                   *)
(***************************************************************************)
EXTENDS Integers, Sequences, FiniteSets, TLC

VARIABLES
    variant,   \* which server file is deployed: "server" or "v3"
    db,        \* the committed tables
    conn,      \* the pool's connections: the request each one serves
    started,   \* requests received so far
    faults,    \* storage faults injected so far
    clock,     \* Date.now() of the latest request
    last       \* the response sent most recently

vars == <<variant, db, conn, started, faults, clock, last>>

----------------------------------------------------------------------------
(* Bounds of the model *)

PoolSize == 2
MaxRequests == 3
MaxFaults == 1
MaxClock == 1
MaxReferrals == 11
MaxCalls == 4
MaxLedger == 2

----------------------------------------------------------------------------
(* Program constants *)

MinWithdrawal == 5

\* system_config: ('max_withdrawal_amount', '1000.00', ...)
MaxWithdrawal == 1000

\* req.body.amount is whatever the JSON body carries. The string 'NaN' is the
\* one value that is no number for JavaScript (Number('NaN') and
\* parseFloat('NaN') are NaN) and a valid value of a DECIMAL(10,2) column;
\* it is encoded outside the range of the amounts.
NaN == -1

\* JavaScript's a < b on numbers: false as soon as one side is NaN
JsLess(a, b) == a # NaN /\ b # NaN /\ a < b
RewardMain == 5
RewardOther == 1
BonusThreshold == 10
BonusAmount == 10
CodeMod == 1000000

None == "none"

Variants == {"server", "v3"}

\* surveys and survey_questions as seeded (two of the six seeded surveys),
\* plus one survey an administrator has switched off
Surveys ==
    (1 :> [survey_key |-> "main_survey", reward_amount |-> RewardMain, is_active |-> TRUE])
 @@ (2 :> [survey_key |-> "communication", reward_amount |-> RewardOther, is_active |-> TRUE])
 @@ (3 :> [survey_key |-> "feedback", reward_amount |-> RewardOther, is_active |-> FALSE])

Questions ==
    { [id |-> 1, survey_id |-> 1, question_key |-> "q1"],
      [id |-> 2, survey_id |-> 1, question_key |-> "q4"],
      [id |-> 11, survey_id |-> 2, question_key |-> "communication_q1"] }

\* an email is a record, so that the synthesized temp_<now>_<ip>@temp.com is
\* a value like the others; a referral code is a pair <<prefix, digits>>
Email(name) == [name |-> name, stamp |-> 0, ip |-> None]

AdminUser ==
    [id |-> 1, email |-> Email("admin@angelessinalas.com"), balance |-> 0,
     referral_code |-> <<"ADMIN001", 0>>, ip_address |-> None, user_agent |-> None]

\* the write set of a transaction: its versions of users rows and the rows it
\* inserted, in statement order
EmptyWrites ==
    [users |-> {}, completed |-> <<>>, responses |-> <<>>, txns |-> <<>>,
     wreqs |-> <<>>, logs |-> <<>>]

IdleConn == [kind |-> "idle", pc |-> "idle", w |-> EmptyWrites]

NoResponse == [kind |-> None, outcome |-> None, success |-> FALSE, req |-> IdleConn]

\* the messages of the responses
OkSubmit == "Encuesta enviada correctamente"
OkWithdraw == "Solicitud de retiro enviada"
DevMode == "modo desarrollo"
AlreadyCompleted == "Ya has completado esta encuesta"
AccountNotFound == "Usuario no encontrado"
InsufficientBalance == "Saldo insuficiente"
BelowMinimum == "El monto minimo de retiro es 5 EUR"
MissingFields == "Email y cantidad son requeridos"
StorageFailure == "storage error"
UniqueViolation == "duplicate key value violates unique constraint"
NotNullViolation == "null value violates not-null constraint"
ForeignKeyViolation == "violates foreign key constraint"

\* The promise of a handler of server.js is rejected when pool.connect() or
\* the ROLLBACK of the catch block raises: nothing in the handler answers.
\* Express 4 drops the rejection (the request stays unanswered); Express 5
\* passes it to its default error handler, which answers 500.
Unanswered == "no response"
InternalError == "Internal Server Error"
RejectionOutcomes == {Unanswered, InternalError}

----------------------------------------------------------------------------
(* Sequence helpers *)

RECURSIVE SumSeq(_)
SumSeq(s) == IF s = <<>> THEN 0 ELSE Head(s) + SumSeq(Tail(s))

----------------------------------------------------------------------------
(* Balance computations *)

IsCredit(t) == t.transaction_type \in {"survey_reward", "referral_bonus"}
IsDebit(t) == t.transaction_type \in {"withdrawal_request", "withdrawal_completed"}

\* the CASE expression of the balance aggregates
SignedAmount(t) ==
    IF IsCredit(t) THEN t.amount ELSE IF IsDebit(t) THEN 0 - t.amount ELSE 0

\* UPDATE users SET balance = (SELECT COALESCE(SUM(CASE ...), 0)
\*   FROM transactions WHERE user_id = $1 AND status = 'completed')
SubmitBalance(txns, uid) ==
    SumSeq([i \in DOMAIN txns |->
        IF txns[i].user_id = uid /\ txns[i].status = "completed"
        THEN SignedAmount(txns[i]) ELSE 0])

\* get_user_balance of schema.sql: the same CASE over every row of the user,
\* whatever its status
GetUserBalance(txns, uid) ==
    SumSeq([i \in DOMAIN txns |->
        IF txns[i].user_id = uid THEN SignedAmount(txns[i]) ELSE 0])

\* get_user_balance of the full schema: SUM over no row is NULL, NULL - x and
\* x - NULL are NULL, and COALESCE(NULL, 0.00) is 0.00
GetUserBalanceFull(txns, uid) ==
    LET credits == {i \in DOMAIN txns : txns[i].user_id = uid /\ IsCredit(txns[i])
                                        /\ txns[i].status = "completed"}
        debits == {i \in DOMAIN txns : txns[i].user_id = uid /\ IsDebit(txns[i])
                                       /\ txns[i].status = "completed"}
    IN IF credits = {} \/ debits = {} THEN 0
       ELSE SumSeq([i \in DOMAIN txns |-> IF i \in credits THEN txns[i].amount ELSE 0])
          - SumSeq([i \in DOMAIN txns |-> IF i \in debits THEN txns[i].amount ELSE 0])

----------------------------------------------------------------------------
(* The store: committed tables, write sets, locks *)

Conns == 1..PoolSize

Active(d) == conn[d].kind # "idle"

CommittedIds == {r.id : r \in db.users}

\* what a statement of connection c reads: the committed rows and its own
UsersSeen(c) ==
    {r \in db.users : \A x \in conn[c].w.users : x.id # r.id} \cup conn[c].w.users

Seen(c, table) == db[table] \o conn[c].w[table]

\* (mutant) the upsert does not wait for a row version of another transaction
EmailBusyNever(c, email) == FALSE

\* (mutant) only an insert in progress is waited for: the statement takes no
\* lock on a users row that exists (ON CONFLICT (email) DO NOTHING)
EmailBusyInsertOnly(c, email) ==
    \E d \in Conns \ {c} : \E r \in conn[d].w.users :
        r.email = email /\ r.id \notin CommittedIds

\* a users row version written by another open transaction holds the row
\* lock (an update) or is an insert in progress: the statement waits for it
EmailBusy(c, email) ==
    \E d \in Conns \ {c} : \E r \in conn[d].w.users : r.email = email

CodeBusy(c, code) ==
    \E d \in Conns \ {c} : \E r \in conn[d].w.users :
        r.id \notin CommittedIds /\ r.referral_code = code

CompletionBusy(c, uid, sid) ==
    \E d \in Conns \ {c} : \E i \in DOMAIN conn[d].w.completed :
        conn[d].w.completed[i] = [user_id |-> uid, survey_id |-> sid]

\* uuid_generate_v4(): an id no row has
FreshUserId ==
    LET used == CommittedIds \cup UNION {{r.id : r \in conn[d].w.users} : d \in Conns}
    IN CHOOSE n \in 1..(Cardinality(used) + 1) : n \notin used

\* (mutant) the commit of a transaction settles the pending entries the
\* ledger already holds
CommittedSettlesPending(c) ==
    LET w == conn[c].w IN
    [users |-> {r \in db.users : \A x \in w.users : x.id # r.id} \cup w.users,
     completed |-> db.completed \o w.completed,
     responses |-> db.responses \o w.responses,
     txns |-> [i \in DOMAIN db.txns |->
                  IF db.txns[i].status = "pending"
                  THEN [db.txns[i] EXCEPT !.status = "completed"] ELSE db.txns[i]]
              \o w.txns,
     wreqs |-> db.wreqs \o w.wreqs,
     logs |-> db.logs \o w.logs,
     referrals |-> db.referrals]

\* (mutant) the commit of a transaction replaces the completion records
CommittedDropsCompletions(c) ==
    LET w == conn[c].w IN
    [users |-> {r \in db.users : \A x \in w.users : x.id # r.id} \cup w.users,
     completed |-> w.completed,
     responses |-> db.responses \o w.responses,
     txns |-> db.txns \o w.txns,
     wreqs |-> db.wreqs \o w.wreqs,
     logs |-> db.logs \o w.logs,
     referrals |-> db.referrals]

\* COMMIT: the write set becomes part of the committed tables
Committed(c) ==
    LET w == conn[c].w IN
    [users |-> {r \in db.users : \A x \in w.users : x.id # r.id} \cup w.users,
     completed |-> db.completed \o w.completed,
     responses |-> db.responses \o w.responses,
     txns |-> db.txns \o w.txns,
     wreqs |-> db.wreqs \o w.wreqs,
     logs |-> db.logs \o w.logs,
     referrals |-> db.referrals]

\* (mutant) the handler's writes were not made on the transaction's client:
\* ROLLBACK does not undo them
RolledBackKeepsWrites(c) == Committed(c)

\* ROLLBACK: the write set is dropped
RolledBack(c) == db

\* pool.connect(): an idle client of the pool
IdleClient == CHOOSE c \in Conns : ~Active(c) /\ \A d \in Conns : ~Active(d) => c <= d

Response(c, outcome, success) ==
    [kind |-> conn[c].kind, outcome |-> outcome, success |-> success, req |-> conn[c]]

\* catch: ROLLBACK, res.status(400).json({error}), finally: client.release()
FailRequest(c, message) ==
    /\ db' = RolledBack(c)
    /\ last' = Response(c, message, FALSE)
    /\ conn' = [conn EXCEPT ![c] = IdleConn]

\* catch (dbError) of the third variant: a success answer is simulated; no
\* ROLLBACK is issued and the client is not released
SimulateSuccess(c) ==
    /\ db' = db
    /\ last' = Response(c, DevMode, TRUE)
    /\ conn' = [conn EXCEPT ![c].pc = "leaked"]

\* a statement of connection c raises
Throw(c, message) ==
    IF variant = "server" THEN FailRequest(c, message) ELSE SimulateSuccess(c)

Goto(c, pc) == conn' = [conn EXCEPT ![c].pc = pc]

----------------------------------------------------------------------------
(* POST /api/surveys/:id/submit *)

\* userEmail || `temp_${Date.now()}_${userIp...}@temp.com`
TempEmail(userEmail, now, ip) ==
    IF userEmail # None THEN Email(userEmail)
    ELSE [name |-> "temp", stamp |-> now, ip |-> ip]

\* `REF${Date.now().toString().slice(-6)}`
ReferralCode(now) == <<"REF", now % CodeMod>>

BeginSubmit(sid, userEmail, origin, responses) ==
    /\ started < MaxRequests
    /\ \E c \in Conns : ~Active(c)
    /\ \E now \in {clock, clock + 1} :
        /\ now <= MaxClock
        /\ clock' = now
        /\ conn' = [conn EXCEPT ![IdleClient] =
              [kind |-> "submit", pc |-> "upsert", surveyId |-> sid,
               userEmail |-> userEmail, origin |-> origin, responses |-> responses,
               now |-> now, userId |-> 0, saved |-> <<>>, reward |-> 0,
               ledgerRead |-> 0,
               raced |-> \E d \in Conns : /\ conn[d].kind = "submit"
                                           /\ conn[d].pc # "leaked"
                                           /\ conn[d].surveyId = sid
                                           /\ conn[d].userEmail = userEmail,
               overlap |-> \E d \in Conns : /\ conn[d].kind = "submit"
                                             /\ conn[d].pc # "leaked"
                                             /\ conn[d].userEmail = userEmail,
               w |-> EmptyWrites]]
    /\ started' = started + 1
    /\ UNCHANGED <<variant, db, faults, last>>

\* INSERT INTO users ... ON CONFLICT (email) DO UPDATE SET ip_address, user_agent
\* RETURNING id
SubmitUpsert(c) ==
    /\ conn[c].kind = "submit" /\ conn[c].pc = "upsert"
    /\ LET q == conn[c]
           email == TempEmail(q.userEmail, q.now, q.origin.ip)
           code == ReferralCode(q.now)
           old == {r \in db.users : r.email = email}
       IN /\ ~EmailBusy(c, email)
          /\ IF old # {}
             THEN LET r == CHOOSE r \in old : TRUE IN
                  /\ conn' = [conn EXCEPT
                        ![c].w.users = {[r EXCEPT !.ip_address = q.origin.ip,
                                                  !.user_agent = q.origin.ua]},
                        ![c].userId = r.id,
                        ![c].pc = "check"]
                  /\ UNCHANGED <<db, last>>
             ELSE /\ ~CodeBusy(c, code)
                  /\ IF \E r \in db.users : r.referral_code = code
                     THEN Throw(c, UniqueViolation)
                     ELSE /\ conn' = [conn EXCEPT
                                ![c].w.users = {[id |-> FreshUserId, email |-> email,
                                    balance |-> 0, referral_code |-> code,
                                    ip_address |-> q.origin.ip,
                                    user_agent |-> q.origin.ua]},
                                ![c].userId = FreshUserId,
                                ![c].pc = "check"]
                          /\ UNCHANGED <<db, last>>
    /\ UNCHANGED <<variant, started, faults, clock>>

\* (mutant) the guard never finds a completion record
HasCompletedNever(c, uid, sid) == FALSE

\* SELECT id FROM user_completed_surveys WHERE user_id = $1 AND survey_id = $2
HasCompleted(c, uid, sid) ==
    \E i \in DOMAIN Seen(c, "completed") :
        Seen(c, "completed")[i] = [user_id |-> uid, survey_id |-> sid]

\* UNIQUE(user_id, survey_id) of user_completed_surveys rejects the row
CompletionClash(c, row) ==
    \E i \in DOMAIN Seen(c, "completed") : Seen(c, "completed")[i] = row

\* (mutant) the reward is credited as soon as the guard has passed
SubmitCheckThenCredit(c) ==
    /\ conn[c].kind = "submit" /\ conn[c].pc = "check"
    /\ IF HasCompleted(c, conn[c].userId, conn[c].surveyId)
       THEN FailRequest(c, AlreadyCompleted)
       ELSE /\ conn' = [conn EXCEPT
                  ![c].w.txns = Append(@,
                      [user_id |-> conn[c].userId, transaction_type |-> "survey_reward",
                       amount |-> RewardOther, reference_id |-> None,
                       status |-> "completed"]),
                  ![c].pc = "answers"]
            /\ UNCHANGED <<db, last>>
    /\ UNCHANGED <<variant, started, faults, clock>>

SubmitCheck(c) ==
    /\ conn[c].kind = "submit" /\ conn[c].pc = "check"
    /\ IF HasCompleted(c, conn[c].userId, conn[c].surveyId)
       THEN FailRequest(c, AlreadyCompleted)
       ELSE Goto(c, "answers") /\ UNCHANGED <<db, last>>
    /\ UNCHANGED <<variant, started, faults, clock>>

\* one user_survey_responses row: a scalar goes to answer_text, an array to
\* answer_options
AnswerRow(uid, sid, e) ==
    LET q == CHOOSE q \in Questions : q.survey_id = sid /\ q.question_key = e.key IN
    [user_id |-> uid, survey_id |-> sid, question_id |-> q.id,
     answer_text |-> IF e.isArray THEN <<None>> ELSE e.answer,
     answer_options |-> IF e.isArray THEN e.answer ELSE <<None>>]

KnownQuestion(sid, e) ==
    \E q \in Questions : q.survey_id = sid /\ q.question_key = e.key

\* (mutant) an answer to a key that is no question of the survey is an error
SubmitAnswersRejectUnknown(c) ==
    /\ conn[c].kind = "submit" /\ conn[c].pc = "answers"
    /\ LET q == conn[c]
           rows == [i \in DOMAIN q.responses |->
                       IF KnownQuestion(q.surveyId, q.responses[i])
                       THEN AnswerRow(q.userId, q.surveyId, q.responses[i])
                       ELSE [user_id |-> q.userId, survey_id |-> q.surveyId, question_id |-> 0,
                             answer_text |-> <<None>>, answer_options |-> <<None>>]]
       IN IF \E i \in DOMAIN rows : rows[i].question_id = 0
          THEN Throw(c, ForeignKeyViolation)
          ELSE /\ conn' = [conn EXCEPT
                     ![c].w.responses = @ \o rows,
                     ![c].saved = [i \in DOMAIN rows |-> q.responses[i].key],
                     ![c].pc = "survey"]
               /\ UNCHANGED <<db, last>>
    /\ UNCHANGED <<variant, started, faults, clock>>

\* for (const [questionKey, answer] of Object.entries(responses)): answers to
\* keys that are no question of the survey are skipped
SubmitAnswers(c) ==
    /\ conn[c].kind = "submit" /\ conn[c].pc = "answers"
    /\ LET q == conn[c]
           IsKnown(e) == KnownQuestion(q.surveyId, e)
           known == SelectSeq(q.responses, IsKnown)
           rows == [i \in DOMAIN known |-> AnswerRow(q.userId, q.surveyId, known[i])]
           seen == Seen(c, "responses")
           clash == \E i \in DOMAIN rows : \E j \in DOMAIN seen :
                        /\ seen[j].user_id = rows[i].user_id
                        /\ seen[j].survey_id = rows[i].survey_id
                        /\ seen[j].question_id = rows[i].question_id
       IN IF clash
          THEN Throw(c, UniqueViolation)
          ELSE /\ conn' = [conn EXCEPT
                     ![c].w.responses = @ \o rows,
                     ![c].saved = [i \in DOMAIN known |-> known[i].key],
                     ![c].pc = "survey"]
               /\ UNCHANGED <<db, last>>
    /\ UNCHANGED <<variant, started, faults, clock>>

\* (mutant) the completion record is not inserted
SubmitCompleteNoMark(c) ==
    /\ conn[c].kind = "submit" /\ conn[c].pc = "survey"
    /\ IF conn[c].surveyId \notin DOMAIN Surveys
       THEN Goto(c, "commit")
       ELSE conn' = [conn EXCEPT
                ![c].reward = Surveys[conn[c].surveyId].reward_amount,
                ![c].pc = "reward"]
    /\ UNCHANGED <<variant, db, started, faults, clock, last>>

\* SELECT survey_key, reward_amount FROM surveys WHERE id = $1, then
\* INSERT INTO user_completed_surveys (UNIQUE(user_id, survey_id))
SubmitComplete(c) ==
    /\ conn[c].kind = "submit" /\ conn[c].pc = "survey"
    /\ LET q == conn[c]
           found == q.surveyId \in DOMAIN Surveys
           row == [user_id |-> q.userId, survey_id |-> q.surveyId]
       IN IF ~found /\ variant = "server"
          THEN Goto(c, "commit") /\ UNCHANGED <<db, last>>
          ELSE IF ~found
          THEN Throw(c, ForeignKeyViolation)
          ELSE /\ ~CompletionBusy(c, q.userId, q.surveyId)
               /\ IF CompletionClash(c, row)
                  THEN Throw(c, UniqueViolation)
                  ELSE /\ conn' = [conn EXCEPT
                             ![c].w.completed = Append(@, row),
                             ![c].reward = Surveys[q.surveyId].reward_amount,
                             ![c].pc = "reward"]
                       /\ UNCHANGED <<db, last>>
    /\ UNCHANGED <<variant, started, faults, clock>>

RewardEntry(uid, sid) ==
    [user_id |-> uid, transaction_type |-> "survey_reward",
     amount |-> Surveys[sid].reward_amount,
     reference_id |-> Surveys[sid].survey_key, status |-> "completed"]

\* (mutant) the reward is inserted with pool.query, outside the transaction
SubmitRewardOutsideTx(c) ==
    /\ conn[c].kind = "submit" /\ conn[c].pc = "reward"
    /\ db' = [db EXCEPT !.txns = Append(@, RewardEntry(conn[c].userId, conn[c].surveyId))]
    /\ Goto(c, "balance")
    /\ UNCHANGED <<variant, started, faults, clock, last>>

\* INSERT INTO transactions (... 'survey_reward', reward_amount, ..., survey_key,
\* 'completed')
SubmitReward(c) ==
    /\ conn[c].kind = "submit" /\ conn[c].pc = "reward"
    /\ conn' = [conn EXCEPT
          ![c].w.txns = Append(@, RewardEntry(conn[c].userId, conn[c].surveyId)),
          ![c].pc = "balance"]
    /\ UNCHANGED <<variant, db, started, faults, clock, last>>

\* (mutant) the UPDATE of the stored balance has no WHERE id = $1: it sets the
\* balance of every users row
SubmitUpdateBalanceNoWhere(c) ==
    /\ conn[c].kind = "submit" /\ conn[c].pc = "balance"
    /\ LET uid == conn[c].userId
           b == SubmitBalance(Seen(c, "txns"), uid)
       IN conn' = [conn EXCEPT
             ![c].w.users = {[r EXCEPT !.balance = b] : r \in UsersSeen(c)},
             ![c].ledgerRead = Len(db.txns),
             ![c].pc = "log"]
    /\ UNCHANGED <<variant, db, started, faults, clock, last>>

\* (mutant) the recompute runs on another client than the transaction's
\* (pool.query): it reads the committed ledger only
SubmitUpdateBalanceOnPool(c) ==
    /\ conn[c].kind = "submit" /\ conn[c].pc = "balance"
    /\ LET uid == conn[c].userId
           b == SubmitBalance(db.txns, uid)
       IN conn' = [conn EXCEPT
             ![c].w.users = {IF r.id = uid THEN [r EXCEPT !.balance = b] ELSE r : r \in @},
             ![c].ledgerRead = Len(db.txns),
             ![c].pc = "log"]
    /\ UNCHANGED <<variant, db, started, faults, clock, last>>

\* UPDATE users SET balance = (SELECT COALESCE(SUM(...), 0) ...) WHERE id = $1
SubmitUpdateBalance(c) ==
    /\ conn[c].kind = "submit" /\ conn[c].pc = "balance"
    /\ LET uid == conn[c].userId
           b == SubmitBalance(Seen(c, "txns"), uid)
       IN conn' = [conn EXCEPT
             ![c].w.users = {IF r.id = uid THEN [r EXCEPT !.balance = b] ELSE r : r \in @},
             ![c].ledgerRead = Len(db.txns),
             ![c].pc = "log"]
    /\ UNCHANGED <<variant, db, started, faults, clock, last>>

\* INSERT INTO activity_logs (... 'survey_completed' ...)
SubmitLog(c) ==
    /\ conn[c].kind = "submit" /\ conn[c].pc = "log"
    /\ conn' = [conn EXCEPT
          ![c].w.logs = Append(@, [user_id |-> conn[c].userId,
                                   activity_type |-> "survey_completed",
                                   metadata |-> conn[c].surveyId]),
          ![c].pc = "commit"]
    /\ UNCHANGED <<variant, db, started, faults, clock, last>>

\* COMMIT, client.release(), res.json({success: true, ...})
SubmitCommit(c) ==
    /\ conn[c].kind = "submit" /\ conn[c].pc = "commit"
    /\ db' = Committed(c)
    /\ last' = Response(c, OkSubmit, TRUE)
    /\ conn' = [conn EXCEPT ![c] = IdleConn]
    /\ UNCHANGED <<variant, started, faults, clock>>

----------------------------------------------------------------------------
(* POST /api/withdrawals *)

WithdrawRequest(uid, amount, paypalEmail, pc) ==
    [kind |-> "withdraw", pc |-> pc, userId |-> uid, amount |-> amount,
     paypalEmail |-> paypalEmail, w |-> EmptyWrites]

\* The third variant validates before it takes a connection:
\* if (!paypalEmail || !amount) ...; if (parseFloat(amount) < 5) ...
BeginWithdraw(uid, amount, paypalEmail) ==
    /\ started < MaxRequests
    /\ started' = started + 1
    /\ IF variant = "v3" /\ (paypalEmail = None \/ amount = 0 \/ JsLess(amount, MinWithdrawal))
       THEN /\ last' = [kind |-> "withdraw",
                        outcome |-> IF paypalEmail = None \/ amount = 0
                                    THEN MissingFields ELSE BelowMinimum,
                        success |-> FALSE,
                        req |-> WithdrawRequest(uid, amount, paypalEmail, "validate")]
            /\ UNCHANGED conn
       ELSE /\ \E c \in Conns : ~Active(c)
            /\ conn' = [conn EXCEPT ![IdleClient] =
                  WithdrawRequest(uid, amount, paypalEmail, "balance")]
            /\ UNCHANGED last
    /\ UNCHANGED <<variant, db, faults, clock>>

\* (mutant) the check of the minimum amount is missing
WithdrawCheckNoMinimum(c) ==
    /\ conn[c].kind = "withdraw" /\ conn[c].pc = "balance"
    /\ LET q == conn[c]
           rows == {r \in UsersSeen(c) : r.id = q.userId}
       IN IF rows = {} THEN FailRequest(c, AccountNotFound)
          ELSE IF JsLess((CHOOSE r \in rows : TRUE).balance, q.amount)
               THEN FailRequest(c, InsufficientBalance)
          ELSE Goto(c, "wreq") /\ UNCHANGED <<db, last>>
    /\ UNCHANGED <<variant, started, faults, clock>>

\* (mutant) a request for an id that no users row carries is let through
WithdrawCheckNoLookup(c) ==
    /\ conn[c].kind = "withdraw" /\ conn[c].pc = "balance"
    /\ LET q == conn[c]
           rows == {r \in UsersSeen(c) : r.id = q.userId}
       IN IF rows # {} /\ JsLess((CHOOSE r \in rows : TRUE).balance, q.amount)
          THEN FailRequest(c, InsufficientBalance)
          ELSE IF variant = "server" /\ JsLess(q.amount, MinWithdrawal)
               THEN FailRequest(c, BelowMinimum)
          ELSE Goto(c, "wreq") /\ UNCHANGED <<db, last>>
    /\ UNCHANGED <<variant, started, faults, clock>>

\* SELECT balance FROM users WHERE id = $1 and the checks that follow it
WithdrawCheck(c) ==
    /\ conn[c].kind = "withdraw" /\ conn[c].pc = "balance"
    /\ LET q == conn[c]
           rows == {r \in UsersSeen(c) : r.id = q.userId}
           currentBalance == (CHOOSE r \in rows : TRUE).balance
       IN IF rows = {} THEN FailRequest(c, AccountNotFound)
          ELSE IF JsLess(currentBalance, q.amount) THEN FailRequest(c, InsufficientBalance)
          ELSE IF variant = "server" /\ JsLess(q.amount, MinWithdrawal)
               THEN FailRequest(c, BelowMinimum)
          ELSE Goto(c, "wreq") /\ UNCHANGED <<db, last>>
    /\ UNCHANGED <<variant, started, faults, clock>>

\* gen of withdrawal_requests.id (uuid_generate_v4())
FreshWithdrawalId ==
    LET used == {db.wreqs[i].id : i \in DOMAIN db.wreqs} \cup
                UNION {{conn[d].w.wreqs[i].id : i \in DOMAIN conn[d].w.wreqs} : d \in Conns}
    IN CHOOSE n \in 1..(Cardinality(used) + 1) : n \notin used

\* INSERT INTO withdrawal_requests (user_id, amount, paypal_email, status):
\* paypal_email is NOT NULL
WithdrawInsertRequest(c) ==
    /\ conn[c].kind = "withdraw" /\ conn[c].pc = "wreq"
    /\ LET q == conn[c] IN
       IF q.paypalEmail = None
       THEN Throw(c, NotNullViolation)
       ELSE /\ conn' = [conn EXCEPT
                  ![c].w.wreqs = Append(@, [id |-> FreshWithdrawalId, user_id |-> q.userId,
                        amount |-> q.amount, paypal_email |-> q.paypalEmail,
                        status |-> "pending"]),
                  ![c].pc = "wtxn"]
            /\ UNCHANGED <<db, last>>
    /\ UNCHANGED <<variant, started, faults, clock>>

DebitEntry(uid, amount) ==
    [user_id |-> uid, transaction_type |-> "withdrawal_request", amount |-> amount,
     reference_id |-> None, status |-> "pending"]

\* (mutant) the accepted request appends no ledger entry
WithdrawInsertTxnSkipped(c) ==
    /\ conn[c].kind = "withdraw" /\ conn[c].pc = "wtxn"
    /\ Goto(c, "wlog")
    /\ UNCHANGED <<variant, db, started, faults, clock, last>>

\* INSERT INTO transactions (... 'withdrawal_request', amount, ..., 'pending')
WithdrawInsertTxn(c) ==
    /\ conn[c].kind = "withdraw" /\ conn[c].pc = "wtxn"
    /\ conn' = [conn EXCEPT
          ![c].w.txns = Append(@, DebitEntry(conn[c].userId, conn[c].amount)),
          ![c].pc = "wlog"]
    /\ UNCHANGED <<variant, db, started, faults, clock, last>>

\* INSERT INTO activity_logs (... 'withdrawal_requested' ...)
WithdrawLog(c) ==
    /\ conn[c].kind = "withdraw" /\ conn[c].pc = "wlog"
    /\ conn' = [conn EXCEPT
          ![c].w.logs = Append(@, [user_id |-> conn[c].userId,
                                   activity_type |-> "withdrawal_requested",
                                   metadata |-> conn[c].amount]),
          ![c].pc = "commit"]
    /\ UNCHANGED <<variant, db, started, faults, clock, last>>

WithdrawCommit(c) ==
    /\ conn[c].kind = "withdraw" /\ conn[c].pc = "commit"
    /\ db' = Committed(c)
    /\ last' = Response(c, OkWithdraw, TRUE)
    /\ conn' = [conn EXCEPT ![c] = IdleConn]
    /\ UNCHANGED <<variant, started, faults, clock>>

\* any statement of an open transaction (BEGIN and COMMIT included) can fail
\* with a storage error
Fault(c) ==
    /\ Active(c) /\ conn[c].pc # "leaked"
    /\ faults < MaxFaults
    /\ faults' = faults + 1
    /\ Throw(c, StorageFailure)
    /\ UNCHANGED <<variant, started, clock>>

----------------------------------------------------------------------------
(* The specification of the HTTP handlers *)

\* the answers of a request: a scalar for a question of survey 1 and an array
\* for a key that is no question of any survey
SomeAnswers ==
    <<[key |-> "q1", isArray |-> FALSE, answer |-> <<"Si">>],
      [key |-> "zz", isArray |-> TRUE, answer |-> <<"a", "b">>]>>

Origin1 == [ip |-> "10.0.0.1", ua |-> "firefox"]
Origin2 == [ip |-> "10.0.0.2", ua |-> "chrome"]

Init ==
    /\ variant \in Variants
    /\ db = [users |-> {AdminUser}, completed |-> <<>>, responses |-> <<>>,
             txns |-> <<>>, wreqs |-> <<>>, logs |-> <<>>, referrals |-> <<>>]
    /\ conn = [c \in Conns |-> IdleConn]
    /\ started = 0
    /\ faults = 0
    /\ clock = 0
    /\ last = NoResponse

\* the steps of the handlers, for requests drawn from the given input sets
NextOn(SurveyInputs, EmailInputs, OriginInputs, ResponseInputs, UserIdInputs, AmountInputs, PaypalInputs) ==
    \/ \E sid \in SurveyInputs, e \in EmailInputs, o \in OriginInputs, r \in ResponseInputs :
          BeginSubmit(sid, e, o, r)
    \/ \E c \in Conns : SubmitUpsert(c)
    \/ \E c \in Conns : SubmitCheck(c)
    \/ \E c \in Conns : SubmitAnswers(c)
    \/ \E c \in Conns : SubmitComplete(c)
    \/ \E c \in Conns : SubmitReward(c)
    \/ \E c \in Conns : SubmitUpdateBalance(c)
    \/ \E c \in Conns : SubmitLog(c)
    \/ \E c \in Conns : SubmitCommit(c)
    \/ \E u \in UserIdInputs, a \in AmountInputs, p \in PaypalInputs : BeginWithdraw(u, a, p)
    \/ \E c \in Conns : WithdrawCheck(c)
    \/ \E c \in Conns : WithdrawInsertRequest(c)
    \/ \E c \in Conns : WithdrawInsertTxn(c)
    \/ \E c \in Conns : WithdrawLog(c)
    \/ \E c \in Conns : WithdrawCommit(c)
    \/ \E c \in Conns : Fault(c)

\* one account (created by its first submission, with id 2) submitting the
\* two active surveys and withdrawing
Next ==
    NextOn({1, 2}, {"ana@example.com"}, {Origin1, Origin2}, {SomeAnswers},
           {2}, {3, 5}, {"pay@example.com"})

Spec == Init /\ [][Next]_vars

\* submissions for an active survey, for a survey that is switched off and
\* for a survey id that no row of surveys carries
NextAnySurvey ==
    NextOn({1, 3, 9}, {"ana@example.com"}, {Origin1}, {SomeAnswers},
           {2}, {5}, {"pay@example.com"})

SpecAnySurvey == Init /\ [][NextAnySurvey]_vars

\* withdrawal requests for the account the first submission creates (id 2)
\* and for an id no account has, with and without a payout destination
NextWithdrawals ==
    NextOn({1}, {"ana@example.com"}, {Origin1}, {SomeAnswers},
           {2, 7}, {3, 5}, {"pay@example.com", None})

SpecWithdrawals == Init /\ [][NextWithdrawals]_vars

\* Withdrawal requests whose amount is a number or the string 'NaN'
NextAmounts ==
    NextOn({1}, {"ana@example.com"}, {Origin1}, {SomeAnswers}, {2}, {5, NaN},
           {"pay@example.com"})

SpecAmounts == Init /\ [][NextAmounts]_vars

\* submissions of two contact keys that have no account yet
NextNewAccounts ==
    NextOn({1}, {"ana@example.com", "bob@example.com"}, {Origin1}, {SomeAnswers},
           {2}, {5}, {"pay@example.com"})

SpecNewAccounts == Init /\ [][NextNewAccounts]_vars

----------------------------------------------------------------------------
(* The SQL functions of the full schema, each called as one statement *)

\* SELECT COUNT(*) FROM referrals WHERE referrer_id = user_uuid
ReferralCount(uid) ==
    Cardinality({i \in DOMAIN db.referrals : db.referrals[i].referrer_id = uid})

\* (mutant) the presence check looks for another status than the insert writes
AlreadyReceivedPending(uid) ==
    \E i \in DOMAIN db.txns :
        /\ db.txns[i].user_id = uid
        /\ db.txns[i].transaction_type = "referral_bonus"
        /\ db.txns[i].status = "pending"

\* EXISTS(SELECT 1 FROM transactions WHERE user_id = user_uuid
\*        AND transaction_type = 'referral_bonus' AND status = 'completed')
AlreadyReceived(uid) ==
    \E i \in DOMAIN db.txns :
        /\ db.txns[i].user_id = uid
        /\ db.txns[i].transaction_type = "referral_bonus"
        /\ db.txns[i].status = "completed"

BonusEntry(uid) ==
    [user_id |-> uid, transaction_type |-> "referral_bonus", amount |-> BonusAmount,
     reference_id |-> "referral_bonus_10", status |-> "completed"]

\* UPDATE users SET balance = get_user_balance(user_uuid) WHERE id = user_uuid
WithBalance(users, txns, uid) ==
    {IF r.id = uid THEN [r EXCEPT !.balance = GetUserBalanceFull(txns, uid)] ELSE r :
        r \in users}

SqlCall(name, uid, arg) ==
    [kind |-> name, pc |-> "sql", userId |-> uid, arg |-> arg, w |-> EmptyWrites]

SqlReturn(name, uid, arg, outcome, value) ==
    [kind |-> name, outcome |-> outcome, success |-> value, req |-> SqlCall(name, uid, arg)]

\* a row of the referrals table appears (no code of the repository inserts one)
AddReferral(uid) ==
    /\ uid \in CommittedIds
    /\ Len(db.referrals) < MaxReferrals
    /\ db' = [db EXCEPT !.referrals =
                Append(@, [referrer_id |-> uid, referred_user_id |-> 100 + Len(@)])]
    /\ UNCHANGED <<variant, conn, started, faults, clock, last>>

\* (mutant) the bonus is granted whatever the number of referrals
CheckReferralBonusNoThreshold(uid) ==
    /\ started < MaxCalls
    /\ started' = started + 1
    /\ IF ~AlreadyReceived(uid)
       THEN IF uid \notin CommittedIds
            THEN /\ last' = SqlReturn("check_referral_bonus", uid, None,
                                      ForeignKeyViolation, FALSE)
                 /\ UNCHANGED db
            ELSE LET txns == Append(db.txns, BonusEntry(uid)) IN
                 /\ db' = [db EXCEPT !.txns = txns,
                                     !.users = WithBalance(@, txns, uid)]
                 /\ last' = SqlReturn("check_referral_bonus", uid, None, "TRUE", TRUE)
       ELSE /\ last' = SqlReturn("check_referral_bonus", uid, None, "FALSE", FALSE)
            /\ UNCHANGED db
    /\ UNCHANGED <<variant, conn, faults, clock>>

CheckReferralBonus(uid) ==
    /\ started < MaxCalls
    /\ started' = started + 1
    /\ IF ReferralCount(uid) >= BonusThreshold /\ ~AlreadyReceived(uid)
       THEN IF uid \notin CommittedIds
            THEN /\ last' = SqlReturn("check_referral_bonus", uid, None,
                                      ForeignKeyViolation, FALSE)
                 /\ UNCHANGED db
            ELSE LET txns == Append(db.txns, BonusEntry(uid)) IN
                 /\ db' = [db EXCEPT !.txns = txns,
                                     !.users = WithBalance(@, txns, uid)]
                 /\ last' = SqlReturn("check_referral_bonus", uid, None, "TRUE", TRUE)
       ELSE /\ last' = SqlReturn("check_referral_bonus", uid, None, "FALSE", FALSE)
            /\ UNCHANGED db
    /\ UNCHANGED <<variant, conn, faults, clock>>

\* SELECT id FROM surveys WHERE survey_key = ... AND is_active = TRUE
ActiveSurveyId(key) ==
    LET ids == {sid \in DOMAIN Surveys :
                   Surveys[sid].survey_key = key /\ Surveys[sid].is_active}
    IN IF ids = {} THEN 0 ELSE CHOOSE sid \in ids : TRUE

\* (mutant) the completion record of the account is not looked up
CanUserCompleteSurveyAlways(uid, key) == ActiveSurveyId(key) # 0

CanUserCompleteSurvey(uid, key) ==
    /\ ActiveSurveyId(key) # 0
    /\ ~\E i \in DOMAIN db.completed :
          db.completed[i] = [user_id |-> uid, survey_id |-> ActiveSurveyId(key)]

ProcessSurveyReward(uid, key) ==
    /\ started < MaxCalls
    /\ started' = started + 1
    /\ IF ~CanUserCompleteSurvey(uid, key)
       THEN /\ last' = SqlReturn("process_survey_reward", uid, key, "FALSE", FALSE)
            /\ UNCHANGED db
       ELSE IF uid \notin CommittedIds
       THEN /\ last' = SqlReturn("process_survey_reward", uid, key,
                                 ForeignKeyViolation, FALSE)
            /\ UNCHANGED db
       ELSE LET sid == ActiveSurveyId(key)
                txns == Append(db.txns, RewardEntry(uid, sid))
            IN /\ db' = [db EXCEPT
                      !.completed = Append(@, [user_id |-> uid, survey_id |-> sid]),
                      !.txns = txns,
                      !.users = WithBalance(@, txns, uid)]
               /\ last' = SqlReturn("process_survey_reward", uid, key, "TRUE", TRUE)
    /\ UNCHANGED <<variant, conn, faults, clock>>

SqlUsers == {1, 2}
SqlKeys == {"main_survey", "feedback", "unknown"}

InitSql == Init /\ variant = "server"

NextSql ==
    \/ \E u \in SqlUsers : AddReferral(u)
    \/ \E u \in SqlUsers : CheckReferralBonus(u)
    \/ \E u \in SqlUsers, k \in SqlKeys : ProcessSurveyReward(u, k)

SpecSql == InitSql /\ [][NextSql]_vars

----------------------------------------------------------------------------
(* check_referral_bonus called from concurrent sessions: each call is one
   statement in a transaction of its own, under READ COMMITTED *)

\* the users row of uid carries a version written by another open transaction
UserRowBusy(c, uid) ==
    \E d \in Conns \ {c} : \E r \in conn[d].w.users : r.id = uid

\* SELECT check_referral_bonus(uid) is sent on an idle session
BeginBonusCall(uid) ==
    /\ started < MaxCalls
    /\ \E c \in Conns : ~Active(c)
    /\ started' = started + 1
    /\ conn' = [conn EXCEPT ![IdleClient] =
          [kind |-> "check_referral_bonus", pc |-> "check", userId |-> uid,
           arg |-> None, w |-> EmptyWrites]]
    /\ UNCHANGED <<variant, db, faults, clock, last>>

\* SELECT COUNT(*) ...; SELECT EXISTS(...); IF ... THEN INSERT INTO transactions:
\* the reads see the committed rows, the insert takes no lock on the ledger
BonusCallCheck(c) ==
    /\ conn[c].kind = "check_referral_bonus" /\ conn[c].pc = "check"
    /\ LET uid == conn[c].userId IN
       IF ReferralCount(uid) >= BonusThreshold /\ ~AlreadyReceived(uid)
       THEN IF uid \notin CommittedIds
            THEN /\ last' = Response(c, ForeignKeyViolation, FALSE)
                 /\ conn' = [conn EXCEPT ![c] = IdleConn]
            ELSE /\ conn' = [conn EXCEPT ![c].w.txns = Append(@, BonusEntry(uid)),
                                         ![c].pc = "update"]
                 /\ UNCHANGED last
       ELSE /\ last' = Response(c, "FALSE", FALSE)
            /\ conn' = [conn EXCEPT ![c] = IdleConn]
    /\ UNCHANGED <<variant, db, started, faults, clock>>

\* UPDATE users SET balance = get_user_balance(user_uuid): waits for the row
\* lock another open transaction holds
BonusCallUpdate(c) ==
    /\ conn[c].kind = "check_referral_bonus" /\ conn[c].pc = "update"
    /\ LET uid == conn[c].userId IN
       /\ ~UserRowBusy(c, uid)
       /\ conn' = [conn EXCEPT
             ![c].w.users = {r \in WithBalance(db.users, Seen(c, "txns"), uid) : r.id = uid},
             ![c].pc = "commit"]
    /\ UNCHANGED <<variant, db, started, faults, clock, last>>

\* RETURN TRUE; the statement's transaction commits
BonusCallCommit(c) ==
    /\ conn[c].kind = "check_referral_bonus" /\ conn[c].pc = "commit"
    /\ db' = Committed(c)
    /\ last' = Response(c, "TRUE", TRUE)
    /\ conn' = [conn EXCEPT ![c] = IdleConn]
    /\ UNCHANGED <<variant, started, faults, clock>>

NextSqlTx ==
    \/ \E u \in SqlUsers : AddReferral(u)
    \/ \E u \in SqlUsers : BeginBonusCall(u)
    \/ \E c \in Conns : BonusCallCheck(c)
    \/ \E c \in Conns : BonusCallUpdate(c)
    \/ \E c \in Conns : BonusCallCommit(c)

SpecSqlTx == InitSql /\ [][NextSqlTx]_vars

----------------------------------------------------------------------------
(* The balance computations applied to any ledger the transactions table can
   hold (its CHECK constraints allow four types and four statuses) *)

LedgerTypes ==
    {"survey_reward", "referral_bonus", "withdrawal_request", "withdrawal_completed"}

LedgerStatuses == {"pending", "completed", "failed", "cancelled"}

LedgerEntries ==
    [user_id : {1}, transaction_type : LedgerTypes, amount : {1, 5},
     reference_id : {None}, status : LedgerStatuses]

Ledgers == UNION {[1..n -> LedgerEntries] : n \in 0..MaxLedger}

InitLedger ==
    /\ variant = "server"
    /\ db \in [users : {{AdminUser}}, completed : {<<>>}, responses : {<<>>},
               txns : Ledgers, wreqs : {<<>>}, logs : {<<>>}, referrals : {<<>>}]
    /\ conn = [c \in Conns |-> IdleConn]
    /\ started = 0
    /\ faults = 0
    /\ clock = 0
    /\ last = NoResponse

BalanceResult(name, uid, value) ==
    [kind |-> name, outcome |-> "value", success |-> TRUE,
     req |-> SqlCall(name, uid, None), value |-> value]

\* the UPDATE users SET balance = (SELECT COALESCE(SUM(...), 0) ...) statement
\* of the submit transaction, on the committed ledger
RecomputeBalance(uid) ==
    /\ last.kind # "recompute"
    /\ LET b == SubmitBalance(db.txns, uid) IN
       /\ db' = [db EXCEPT !.users =
                    {IF r.id = uid THEN [r EXCEPT !.balance = b] ELSE r : r \in @}]
       /\ last' = BalanceResult("recompute", uid, b)
    /\ UNCHANGED <<variant, conn, started, faults, clock>>

\* SELECT get_user_balance(uid), as schema.sql defines it
CallGetUserBalance(uid) ==
    /\ last.kind # "get_user_balance"
    /\ last' = BalanceResult("get_user_balance", uid, GetUserBalance(db.txns, uid))
    /\ UNCHANGED <<variant, db, conn, started, faults, clock>>

\* SELECT get_user_balance(uid), as the full schema defines it
CallGetUserBalanceFull(uid) ==
    /\ last.kind # "get_user_balance_full"
    /\ last' = BalanceResult("get_user_balance_full", uid, GetUserBalanceFull(db.txns, uid))
    /\ UNCHANGED <<variant, db, conn, started, faults, clock>>

NextLedger ==
    \/ RecomputeBalance(1)
    \/ CallGetUserBalance(1)
    \/ CallGetUserBalanceFull(1)

SpecLedger == InitLedger /\ [][NextLedger]_vars

----------------------------------------------------------------------------
(* The handlers and the SQL functions on one database *)

\* the account the first submission creates (id 2) submits survey 1 and
\* withdraws; while no request is being handled the SQL functions are called
\* for it
QuietUsers == IF \A c \in Conns : ~Active(c) THEN {2} ELSE {}

NextCore ==
    \/ NextOn({1}, {"ana@example.com"}, {Origin1}, {SomeAnswers}, {2}, {5}, {"pay@example.com"})
    \/ \E u \in QuietUsers : AddReferral(u)
    \/ \E u \in QuietUsers : CheckReferralBonus(u)
    \/ \E u \in QuietUsers : ProcessSurveyReward(u, "communication")

SpecCore == Init /\ [][NextCore]_vars

----------------------------------------------------------------------------
(* Failures outside the handlers' try blocks *)

\* pool.connect() rejects. server.js calls it before try: the handler's
\* promise is rejected. The third variant calls it inside the inner try:
\* catch (dbError) answers a simulated success.
ConnectFault(kind) ==
    /\ started < MaxRequests
    /\ faults < MaxFaults
    /\ started' = started + 1
    /\ faults' = faults + 1
    /\ LET req == [kind |-> kind, pc |-> "connect", w |-> EmptyWrites] IN
       IF variant = "server"
       THEN \E o \in RejectionOutcomes :
               last' = [kind |-> kind, outcome |-> o, success |-> FALSE, req |-> req]
       ELSE last' = [kind |-> kind, outcome |-> DevMode, success |-> TRUE, req |-> req]
    /\ UNCHANGED <<variant, db, conn, clock>>

\* server.js: a statement raises and the ROLLBACK of the catch block raises
\* too (the connection is lost): res.status(400) is not reached, finally
\* releases the client, the handler's promise is rejected; the database
\* aborts the transaction
RollbackFault(c) ==
    /\ variant = "server"
    /\ Active(c)
    /\ faults < MaxFaults
    /\ faults' = faults + 1
    /\ db' = RolledBack(c)
    /\ conn' = [conn EXCEPT ![c] = IdleConn]
    /\ \E o \in RejectionOutcomes : last' = Response(c, o, FALSE)
    /\ UNCHANGED <<variant, started, clock>>

NextEdges ==
    \/ NextOn({1}, {"ana@example.com"}, {Origin1}, {SomeAnswers}, {2}, {5}, {"pay@example.com"})
    \/ \E kind \in {"submit", "withdraw"} : ConnectFault(kind)
    \/ \E c \in Conns : RollbackFault(c)

SpecEdges == Init /\ [][NextEdges]_vars

----------------------------------------------------------------------------
(* Properties *)

\* The balance the ledger derives (spec 4.2): completed credits minus the
\* withdrawal debits that are pending or completed.
DerivedBalance(txns, uid) ==
    SumSeq([i \in DOMAIN txns |->
        IF txns[i].user_id # uid THEN 0
        ELSE IF IsCredit(txns[i]) /\ txns[i].status = "completed" THEN txns[i].amount
        ELSE IF IsDebit(txns[i]) /\ txns[i].status \in {"pending", "completed"}
             THEN 0 - txns[i].amount
        ELSE 0])

CompletionCount(d, uid, sid) ==
    Cardinality({i \in DOMAIN d.completed :
        d.completed[i] = [user_id |-> uid, survey_id |-> sid]})

RewardCount(d, uid, key) ==
    Cardinality({i \in DOMAIN d.txns :
        /\ d.txns[i].user_id = uid
        /\ d.txns[i].transaction_type = "survey_reward"
        /\ d.txns[i].reference_id = key})

AnswerCount(d, uid, sid) ==
    Cardinality({i \in DOMAIN d.responses :
        d.responses[i].user_id = uid /\ d.responses[i].survey_id = sid})

BonusCount(d, uid) ==
    Cardinality({i \in DOMAIN d.txns :
        d.txns[i].user_id = uid /\ d.txns[i].transaction_type = "referral_bonus"})

\* every account id a committed row carries
AllUserIds ==
    {r.id : r \in db.users}
    \cup {db.completed[i].user_id : i \in DOMAIN db.completed}
    \cup {db.responses[i].user_id : i \in DOMAIN db.responses}
    \cup {db.txns[i].user_id : i \in DOMAIN db.txns}

\* the committed account of the contact key of a submit request
AccountOf(q) ==
    {r \in db.users : r.email = TempEmail(q.userEmail, q.now, q.origin.ip)}

\* connection c takes a step that no storage fault causes
Steps(c) == conn'[c] # conn[c] /\ faults' = faults

\* C1: submissions for the same (account, survey), concurrent or not, leave at
\* most one completion record and at most one survey_reward entry for the
\* pair, and once one of them has been answered (with success or with the
\* already-completed error) there is exactly one of each.
C1_OneRewardPerSurvey ==
    /\ \A uid \in AllUserIds : \A sid \in DOMAIN Surveys :
          /\ CompletionCount(db, uid, sid) <= 1
          /\ RewardCount(db, uid, Surveys[sid].survey_key) <= 1
    /\ (/\ last.kind = "submit"
        /\ last.outcome \in {OkSubmit, AlreadyCompleted}
        /\ last.req.userEmail # None
        /\ last.req.surveyId \in DOMAIN Surveys)
       => \E r \in AccountOf(last.req) :
             /\ CompletionCount(db, r.id, last.req.surveyId) = 1
             /\ RewardCount(db, r.id, Surveys[last.req.surveyId].survey_key) = 1

\* two submissions for the same pair overlapped, and the later one was answered
C1_Witness ==
    /\ last.kind = "submit"
    /\ last.outcome = AlreadyCompleted
    /\ last.req.raced
    /\ \E r \in AccountOf(last.req) : CompletionCount(db, r.id, last.req.surveyId) = 1

\* C2: the derived balance (completed credits minus pending and completed
\* withdrawal debits) of every account is >= 0 in every committed state.
C2_NoOverdraft ==
    \A uid \in AllUserIds : DerivedBalance(db.txns, uid) >= 0

\* C3: with no other request running, a withdrawal request (of at least the
\* minimum) for an account whose whole balance is already taken by a committed
\* pending withdrawal fails with the insufficient-balance outcome.
C3_SecondWithdrawalFails ==
    [][\A c \in Conns :
         (/\ conn[c].kind = "withdraw" /\ conn[c].pc = "balance"
          /\ Steps(c)
          /\ \A d \in Conns \ {c} : ~Active(d)
          /\ conn[c].userId \in CommittedIds
          /\ conn[c].amount >= MinWithdrawal
          /\ \E i \in DOMAIN db.txns : /\ db.txns[i].user_id = conn[c].userId
                                       /\ db.txns[i].status = "pending"
          /\ DerivedBalance(db.txns, conn[c].userId) = 0)
         => /\ conn'[c].kind = "idle"
            /\ last'.outcome = InsufficientBalance]_vars

\* C4: in every committed state each account's stored users.balance equals
\* the balance derived from its ledger entries.
C4_CachedBalanceIsDerived ==
    \A r \in db.users : r.balance = DerivedBalance(db.txns, r.id)

\* C5: every step of a submission for a (contact key, survey) whose completion
\* record is already committed leaves the committed tables as they are (the
\* refresh of the account row included), the request gets no further than the
\* guard check, and it is answered with the already-completed error.
C5_ResubmitRejected ==
    [][\A c \in Conns :
         (/\ conn[c].kind = "submit"
          /\ conn'[c] # conn[c]
          /\ conn[c].userEmail # None
          /\ \E r \in AccountOf(conn[c]) :
                CompletionCount(db, r.id, conn[c].surveyId) >= 1)
         => /\ db' = db
            /\ conn[c].pc \in {"upsert", "check", "leaked"}
            /\ (conn'[c].kind = "idle" /\ faults' = faults)
                  => (last'.outcome = AlreadyCompleted /\ ~last'.success)]_vars

\* a resubmission from another origin was rejected: the refreshed account row
\* it held was dropped
C5_Witness ==
    /\ last.kind = "submit"
    /\ last.outcome = AlreadyCompleted
    /\ \E x \in last.req.w.users : \E r \in db.users :
          r.id = x.id /\ r.ip_address # x.ip_address

\* C6: the commit of a first submission of an existing survey appends exactly
\* one completed survey_reward entry of the survey's reward_amount and key,
\* and leaves the stored balance at the previous derived balance plus the
\* reward (when no ledger entry was committed since the transaction
\* recomputed the balance).
C6_RewardCredited ==
    [][\A c \in Conns :
         (/\ conn[c].kind = "submit" /\ conn[c].pc = "commit"
          /\ Steps(c)
          /\ conn[c].surveyId \in DOMAIN Surveys
          /\ conn[c].ledgerRead = Len(db.txns))
         => LET uid == conn[c].userId
                sv == Surveys[conn[c].surveyId]
            IN /\ db'.txns = Append(db.txns, RewardEntry(uid, conn[c].surveyId))
               /\ \E r \in db'.users :
                     /\ r.id = uid
                     /\ r.balance = DerivedBalance(db.txns, uid) + sv.reward_amount]_vars

\* C7: no step of a withdrawal request below the minimum changes a committed
\* table, and no committed withdrawal request, ledger debit or audit entry
\* carries an amount below the minimum.
C7_BelowMinimumWritesNothing ==
    [][/\ \A c \in Conns :
             (/\ conn[c].kind = "withdraw"
              /\ conn[c].amount < MinWithdrawal
              /\ conn'[c] # conn[c]) => db' = db
       /\ (last' # last /\ last'.kind = "withdraw"
              /\ last'.req.amount < MinWithdrawal) => db' = db
       /\ \A i \in DOMAIN db'.wreqs : db'.wreqs[i].amount >= MinWithdrawal
       /\ \A i \in DOMAIN db'.txns :
             db'.txns[i].transaction_type = "withdrawal_request"
                => db'.txns[i].amount >= MinWithdrawal
       /\ \A i \in DOMAIN db'.logs :
             db'.logs[i].activity_type = "withdrawal_requested"
                => db'.logs[i].metadata >= MinWithdrawal]_vars

\* a request below the minimum, by an account that holds the amount, was
\* rejected for being below the minimum
C7_Witness ==
    /\ last.kind = "withdraw"
    /\ last.outcome = BelowMinimum
    /\ last.req.amount < MinWithdrawal
    /\ \E r \in db.users : r.id = last.req.userId /\ r.balance >= last.req.amount
    /\ db.wreqs = <<>>

\* C8: a withdrawal request below the minimum that no storage fault hit is
\* answered with the below-minimum outcome, whatever the account's state.
C8_BelowMinimumFirst ==
    (/\ last.kind = "withdraw"
     /\ last.req.amount < MinWithdrawal
     /\ last.outcome \notin {StorageFailure, DevMode})
    => last.outcome = BelowMinimum

AllOrNothing(d) ==
    \A uid \in {r.id : r \in d.users}
              \cup {d.completed[i].user_id : i \in DOMAIN d.completed}
              \cup {d.responses[i].user_id : i \in DOMAIN d.responses}
              \cup {d.txns[i].user_id : i \in DOMAIN d.txns} : \A sid \in DOMAIN Surveys \cup {9} :
        /\ CompletionCount(d, uid, sid) <= 1
        /\ sid \in DOMAIN Surveys =>
              RewardCount(d, uid, Surveys[sid].survey_key) = CompletionCount(d, uid, sid)
        /\ sid \notin DOMAIN Surveys => CompletionCount(d, uid, sid) = 0
        /\ AnswerCount(d, uid, sid) > 0 => CompletionCount(d, uid, sid) = 1

\* C9: in every committed state a completion record exists for (account,
\* survey) exactly when one survey_reward entry of that account and survey
\* key exists, and answers exist only with the completion record; a step that
\* fails with a storage fault changes no committed table.
C9_SubmitAllOrNothing ==
    [][/\ AllOrNothing(db')
       /\ faults' # faults => db' = db
       ]_vars

\* a storage fault hit a submission after its completion record was inserted,
\* and no completion record is committed
C9_Witness ==
    /\ last.kind = "submit"
    /\ last.outcome \in {StorageFailure, DevMode}
    /\ last.req.w.completed # <<>>
    /\ last.req.w.responses # <<>>
    /\ db.completed = <<>>

\* C10: a call of check_referral_bonus for an account at or above the
\* threshold returns TRUE and appends the one referral_bonus entry when the
\* account has none, and returns FALSE and changes nothing when it has one;
\* there is never more than one.
C10_BonusOnce ==
    [][/\ \A uid \in AllUserIds' : BonusCount(db', uid) <= 1
       /\ (/\ started' # started
           /\ last'.kind = "check_referral_bonus"
           /\ last'.req.userId \in CommittedIds
           /\ ReferralCount(last'.req.userId) >= BonusThreshold)
          => IF BonusCount(db, last'.req.userId) = 0
             THEN /\ last'.success
                  /\ db'.txns = Append(db.txns, BonusEntry(last'.req.userId))
             ELSE /\ ~last'.success
                  /\ db' = db]_vars

\* a later call, at or above the threshold, returned FALSE
C10_Witness ==
    /\ last.kind = "check_referral_bonus"
    /\ ~last.success
    /\ ReferralCount(last.req.userId) >= BonusThreshold
    /\ BonusCount(db, last.req.userId) = 1

\* C11: calls of check_referral_bonus for one account that run concurrently,
\* each in a transaction of its own and each with the referral count at or
\* above the threshold, never leave more than one referral_bonus entry.
C11_ConcurrentBonusOnce ==
    \A uid \in AllUserIds : BonusCount(db, uid) <= 1

\* the answers of a submit request whose key is a question of its survey
KnownAnswers(q) ==
    LET IsKnown(e) == KnownQuestion(q.surveyId, e) IN SelectSeq(q.responses, IsKnown)

\* the request carries answers to known and to unknown question keys
MixedAnswers(q) ==
    /\ KnownAnswers(q) # <<>>
    /\ Len(KnownAnswers(q)) < Len(q.responses)

\* C12: a submission with answers to known and to unknown question keys goes
\* through the answer loop without an error, holds one answer row per known
\* key and none for an unknown key, and at its commit the committed answers
\* of the (account, survey) are those rows, the reported count of saved
\* answers is the number of known keys, and the pair has one reward entry.
C12_UnknownKeysIgnored ==
    [][\A c \in Conns :
         (/\ conn[c].kind = "submit"
          /\ Steps(c)
          /\ conn[c].surveyId \in DOMAIN Surveys
          /\ MixedAnswers(conn[c]))
         => LET q == conn[c]
                known == KnownAnswers(q)
                rows == [i \in DOMAIN known |-> AnswerRow(q.userId, q.surveyId, known[i])]
            IN /\ q.pc = "answers" =>
                     /\ conn'[c].pc = "survey"
                     /\ conn'[c].w.responses = rows
                     /\ Len(conn'[c].saved) = Len(known)
               /\ q.pc = "commit" =>
                     /\ last'.outcome = OkSubmit
                     /\ Len(last'.req.saved) = Len(known)
                     /\ db'.responses = db.responses \o rows
                     /\ AnswerCount(db', q.userId, q.surveyId) = Len(known)
                     /\ RewardCount(db', q.userId, Surveys[q.surveyId].survey_key) = 1]_vars

\* a submission with one known and one unknown key was answered with success
C12_Witness ==
    /\ last.kind = "submit"
    /\ last.outcome = OkSubmit
    /\ last.req.surveyId \in DOMAIN Surveys
    /\ MixedAnswers(last.req)
    /\ Len(last.req.saved) = 1
    /\ AnswerCount(db, last.req.userId, last.req.surveyId) = 1

\* C13: submissions carrying the same contact key, concurrent or not, for the
\* same or for different surveys, resolve to one account: no two committed
\* users rows carry the same email, and a submission answered with success
\* used the id of the one row that carries its email.
C13_OneAccountPerEmail ==
    /\ \A r1, r2 \in db.users : (r1.email = r2.email \/ r1.id = r2.id) => r1 = r2
    /\ (/\ last.kind = "submit"
        /\ last.outcome = OkSubmit
        /\ last.req.userEmail # None)
       => /\ Cardinality(AccountOf(last.req)) = 1
          /\ \A r \in AccountOf(last.req) : r.id = last.req.userId

\* two submissions of one contact key overlapped and both committed, under
\* the same account
C13_Witness ==
    /\ last.kind = "submit"
    /\ last.outcome = OkSubmit
    /\ last.req.overlap
    /\ \A sid \in {1, 2} : CompletionCount(db, last.req.userId, sid) = 1
    /\ Cardinality(AccountOf(last.req)) = 1

\* C14: no step of a submission for a survey id that does not exist changes a
\* committed table (no account is created or refreshed, nothing is written),
\* and the request is not answered with success.
C14_UnknownSurveyCommitsNothing ==
    [][\A c \in Conns :
         (/\ conn[c].kind = "submit"
          /\ conn[c].surveyId \notin DOMAIN Surveys
          /\ Steps(c))
         => /\ db' = db
            /\ last' # last => ~last'.success]_vars

\* C15: no completion record and no reward credit is ever committed for a
\* survey whose is_active flag is false, and a submission for such a survey
\* is not answered with success.
C15_InactiveSurveyRejected ==
    /\ \A i \in DOMAIN db.completed :
          db.completed[i].survey_id \in DOMAIN Surveys
             => Surveys[db.completed[i].survey_id].is_active
    /\ \A i \in DOMAIN db.txns : \A sid \in DOMAIN Surveys :
          (/\ db.txns[i].transaction_type = "survey_reward"
           /\ db.txns[i].reference_id = Surveys[sid].survey_key)
             => Surveys[sid].is_active
    /\ (/\ last.kind = "submit"
        /\ last.req.surveyId \in DOMAIN Surveys
        /\ ~Surveys[last.req.surveyId].is_active)
       => ~last.success

\* the balance computation whose result the last call returned
BalanceOf(name, txns, uid) ==
    IF name = "recompute" THEN SubmitBalance(txns, uid)
    ELSE IF name = "get_user_balance" THEN GetUserBalance(txns, uid)
    ELSE GetUserBalanceFull(txns, uid)

\* C16: for any ledger, the balance the submit recompute and get_user_balance
\* (full schema) compute drops by a when one pending withdrawal_request entry
\* of amount a is added to the ledger.
C16_PendingDebitCounted ==
    last.kind \in {"recompute", "get_user_balance_full"}
    => \A a \in {1, 5} :
          BalanceOf(last.kind, Append(db.txns, DebitEntry(last.req.userId, a)),
                    last.req.userId) = last.value - a

\* C17: for any ledger, the balance the submit recompute and get_user_balance
\* (schema.sql) compute rises by the entry's amount when a pending withdrawal
\* entry is set to failed, and does not change when a failed or cancelled
\* entry of any kind is added.
C17_FailedExcluded ==
    last.kind \in {"recompute", "get_user_balance"}
    => LET uid == last.req.userId IN
       /\ \A i \in DOMAIN db.txns :
             (IsDebit(db.txns[i]) /\ db.txns[i].status = "pending"
                 /\ db.txns[i].user_id = uid)
             => BalanceOf(last.kind, [db.txns EXCEPT ![i].status = "failed"], uid)
                   = last.value + db.txns[i].amount
       /\ \A e \in LedgerEntries :
             e.status \in {"failed", "cancelled"}
             => BalanceOf(last.kind, Append(db.txns, e), uid) = last.value

\* C18: a withdrawal request with no payout destination is answered with the
\* missing-destination outcome before a write is attempted (it never gets to
\* the INSERT INTO withdrawal_requests), whatever the account's balance, and
\* no step of it changes a committed table.
C18_MissingDestinationRejected ==
    [][/\ \A c \in Conns :
             (/\ conn[c].kind = "withdraw"
              /\ conn[c].paypalEmail = None
              /\ Steps(c))
             => /\ db' = db
                /\ conn'[c].pc # "wreq"
       /\ (/\ last' # last
           /\ faults' = faults
           /\ last'.kind = "withdraw"
           /\ last'.req.paypalEmail = None)
          => /\ db' = db
             /\ last'.outcome = MissingFields]_vars

C20_SuccessMeansCommitted ==
    (last.kind = "submit" /\ last.success)
    => /\ last.outcome = OkSubmit
       /\ last.req.surveyId \in DOMAIN Surveys
       /\ CompletionCount(db, last.req.userId, last.req.surveyId) = 1
       /\ RewardCount(db, last.req.userId, Surveys[last.req.surveyId].survey_key) = 1
       /\ Len(last.req.saved) = AnswerCount(db, last.req.userId, last.req.surveyId)

\* C21: the ledger is append-only: across every step of the handlers and of
\* the SQL functions the committed transactions rows stay as they are (same
\* account, kind, amount, reference and status) and rows are only added.
C21_LedgerAppendOnly ==
    [][/\ Len(db'.txns) >= Len(db.txns)
       /\ \A i \in DOMAIN db.txns : db'.txns[i] = db.txns[i]]_vars

\* the ledger holds a reward the handler credited, a pending withdrawal
\* committed after it and a reward process_survey_reward credited after both
C21_Witness ==
    \E i, j, k \in DOMAIN db.txns :
        /\ i < j /\ j < k
        /\ db.txns[i].transaction_type = "survey_reward"
        /\ db.txns[j].transaction_type = "withdrawal_request"
        /\ db.txns[j].status = "pending"
        /\ db.txns[k].reference_id = "communication"

\* C22: completion is one-way per (account, survey): a committed completion
\* record stays in every later state, the pair never has more than one, and
\* no step of a submission for a pair whose completion record is committed
\* changes a committed table or is answered with the handler's success.
C22_CompletionOneWay ==
    [][/\ \A uid \in AllUserIds' : \A sid \in DOMAIN Surveys :
             /\ CompletionCount(db', uid, sid) <= 1
             /\ CompletionCount(db, uid, sid) = 1 => CompletionCount(db', uid, sid) = 1
       /\ \A c \in Conns :
             (/\ conn[c].kind = "submit"
              /\ conn'[c] # conn[c]
              /\ conn[c].userEmail # None
              /\ \E r \in AccountOf(conn[c]) :
                    CompletionCount(db, r.id, conn[c].surveyId) = 1)
             => /\ db' = db
                /\ last' # last => last'.outcome # OkSubmit]_vars

\* the account completed both surveys, and a submission that started with no
\* other submission of the account open was answered already-completed
C22_Witness ==
    /\ last.kind = "submit"
    /\ last.outcome = AlreadyCompleted
    /\ ~last.req.overlap
    /\ \A sid \in {1, 2} : CompletionCount(db, last.req.userId, sid) = 1

CompletedNet(txns, uid) ==
    SumSeq([i \in DOMAIN txns |->
        IF txns[i].user_id = uid /\ txns[i].status = "completed" /\ IsCredit(txns[i])
        THEN txns[i].amount
        ELSE IF txns[i].user_id = uid /\ txns[i].status = "completed" /\ IsDebit(txns[i])
        THEN 0 - txns[i].amount
        ELSE 0])

\* C24: get_user_balance of the full schema returns, for every ledger, the
\* completed credits minus the completed withdrawals, and after a call of
\* process_survey_reward that returned TRUE the account's stored balance is
\* that amount (its total rewards when it has no completed withdrawal).
C24_BalanceIsCompletedNet ==
    /\ last.kind = "get_user_balance_full"
          => last.value = CompletedNet(db.txns, last.req.userId)
    /\ (last.kind = "process_survey_reward" /\ last.success)
          => \A r \in db.users :
                r.id = last.req.userId => r.balance = CompletedNet(db.txns, r.id)

\* C25: within every submit transaction the writes come in the order guard,
\* answers, completion record, reward credit, balance recompute, audit
\* entry, commit: a transaction still at its guard has written no answer,
\* completion, credit or audit row; it holds a completion record only with
\* all its answers, a reward credit only with its completion record, an audit
\* entry only with the credit and the recomputed balance; and it commits a
\* completion record only with the audit entry.
C25_SubmitOrder ==
    [][\A c \in Conns :
         /\ conn'[c].kind = "submit" =>
               LET q == conn'[c]
                   w == q.w
                   known == KnownAnswers(q)
               IN /\ q.pc \in {"upsert", "check"} =>
                        /\ w.responses = <<>> /\ w.completed = <<>>
                        /\ w.txns = <<>> /\ w.logs = <<>>
                  /\ w.completed # <<>> =>
                        /\ q.saved = [i \in DOMAIN known |-> known[i].key]
                        /\ Len(w.responses) = Len(known)
                  /\ w.txns # <<>> => w.completed # <<>>
                  /\ w.logs # <<>> =>
                        /\ w.txns = <<RewardEntry(q.userId, q.surveyId)>>
                        /\ \E r \in w.users :
                              /\ r.id = q.userId
                              /\ r.balance = SubmitBalance(db'.txns \o w.txns, r.id)
         /\ (conn[c].kind = "submit" /\ db'.completed # db.completed
                /\ conn'[c] = IdleConn)
               => /\ conn[c].w.logs # <<>>
                  /\ db'.completed = db.completed \o conn[c].w.completed
                  /\ db'.txns = db.txns \o conn[c].w.txns]_vars

\* a transaction holds its answers, its completion record and its reward
\* credit, and has not yet recomputed the balance
C25_Witness ==
    \E c \in Conns :
        /\ conn[c].kind = "submit"
        /\ conn[c].pc = "balance"
        /\ conn[c].w.responses # <<>>
        /\ conn[c].w.completed # <<>>
        /\ conn[c].w.txns # <<>>
        /\ conn[c].w.logs = <<>>
        /\ \A r \in conn[c].w.users : r.balance = 0

\* the withdrawal_request entries of a ledger, in the order of their commit
PendingDebits(d) ==
    LET IsRequest(t) == t.transaction_type = "withdrawal_request"
    IN SelectSeq(d.txns, IsRequest)

\* C26: in every committed state the withdrawal_requests rows and the
\* withdrawal_request ledger entries are paired one to one (the k-th with the
\* k-th: same account, same amount, ledger status pending), and every step
\* that commits one commits the other with it.
C26_WithdrawalPaired ==
    [][/\ Len(db'.wreqs) = Len(PendingDebits(db'))
       /\ \A k \in DOMAIN db'.wreqs :
             /\ PendingDebits(db')[k].user_id = db'.wreqs[k].user_id
             /\ PendingDebits(db')[k].amount = db'.wreqs[k].amount
             /\ PendingDebits(db')[k].status = "pending"
       /\ Len(db'.wreqs) - Len(db.wreqs) = Len(PendingDebits(db')) - Len(PendingDebits(db))
       /\ Len(db'.wreqs) - Len(db.wreqs) \in {0, 1}]_vars

\* a withdrawal request was just committed, with its ledger entry, in a run
\* in which a storage fault has hit a request
C26_Witness ==
    /\ last.kind = "withdraw"
    /\ last.outcome = OkWithdraw
    /\ faults = 1
    /\ Len(db.wreqs) = 1
    /\ Len(PendingDebits(db)) = 1

\* C27: the ledger entry of every committed withdrawal request carries, as
\* its reference, the id of the withdrawal_requests row created with it.
C27_DebitReferencesRequest ==
    \A k \in DOMAIN PendingDebits(db) :
        /\ PendingDebits(db)[k].reference_id # None
        /\ k \in DOMAIN db.wreqs
        /\ PendingDebits(db)[k].reference_id = db.wreqs[k].id

LedgerCount(d, uid, type) ==
    Cardinality({i \in DOMAIN d.txns :
        d.txns[i].user_id = uid /\ d.txns[i].transaction_type = type})

LogCount(d, uid, type) ==
    Cardinality({i \in DOMAIN d.logs :
        d.logs[i].user_id = uid /\ d.logs[i].activity_type = type})

\* C28: in every committed state each account has as many survey_completed
\* audit entries as survey_reward ledger entries, as many
\* withdrawal_requested audit entries as withdrawal_request ledger entries,
\* and one audit entry for each referral_bonus ledger entry; a step that
\* appends ledger entries appends as many audit entries.
C28_LedgerEntryAudited ==
    [][/\ \A uid \in AllUserIds' :
             /\ LogCount(db', uid, "survey_completed") = LedgerCount(db', uid, "survey_reward")
             /\ LogCount(db', uid, "withdrawal_requested")
                   = LedgerCount(db', uid, "withdrawal_request")
             /\ Cardinality({i \in DOMAIN db'.logs : db'.logs[i].user_id = uid})
                   = Cardinality({i \in DOMAIN db'.txns : db'.txns[i].user_id = uid})
       /\ Len(db'.logs) - Len(db.logs) = Len(db'.txns) - Len(db.txns)]_vars

\* C29: a call of check_referral_bonus for an account whose referral count is
\* below the threshold returns FALSE and leaves every committed table (ledger
\* and stored balance included) as it is; a call that appends to the ledger
\* appends one referral_bonus entry of the configured amount, for an account
\* at or above the threshold; no account below the threshold has a bonus.
C29_BonusNeedsThreshold ==
    [][/\ (started' # started /\ last'.kind = "check_referral_bonus")
          => LET uid == last'.req.userId IN
             /\ ReferralCount(uid) < BonusThreshold => (~last'.success /\ db' = db)
             /\ db'.txns # db.txns =>
                   /\ ReferralCount(uid) >= BonusThreshold
                   /\ last'.success
                   /\ db'.txns = Append(db.txns,
                         [user_id |-> uid, transaction_type |-> "referral_bonus",
                          amount |-> BonusAmount, reference_id |-> "referral_bonus_10",
                          status |-> "completed"])
       /\ \A uid \in AllUserIds' :
             BonusCount(db', uid) > 0 =>
                Cardinality({i \in DOMAIN db'.referrals :
                                db'.referrals[i].referrer_id = uid}) >= BonusThreshold]_vars

\* a call for an account one referral short of the threshold returned FALSE
C29_Witness ==
    /\ last.kind = "check_referral_bonus"
    /\ ~last.success
    /\ last.req.userId \in CommittedIds
    /\ ReferralCount(last.req.userId) = BonusThreshold - 1
    /\ BonusCount(db, last.req.userId) = 0

\* C30: the upsert of a submission whose contact key has no account never
\* fails: it creates the account, with a referral code that no committed
\* account carries (also when another account was created in the same clock
\* millisecond, or at a time with the same last six digits).
C30_FreshCodePerAccount ==
    [][\A c \in Conns :
         (/\ conn[c].kind = "submit" /\ conn[c].pc = "upsert"
          /\ Steps(c)
          /\ AccountOf(conn[c]) = {})
         => /\ conn'[c].pc = "check"
            /\ \A x \in conn'[c].w.users : \A r \in db.users :
                  r.referral_code # x.referral_code]_vars

\* C31: a call of process_survey_reward for an existing account returns FALSE
\* and changes nothing when the survey key is unknown or inactive or the
\* account has completed the survey; otherwise it returns TRUE and appends
\* one completion record and one completed survey_reward entry of the
\* survey's reward amount. No (account, survey) is credited twice.
C31_ProcessRewardOnce ==
    [][/\ (/\ started' # started
           /\ last'.kind = "process_survey_reward"
           /\ last'.req.userId \in CommittedIds)
          => LET uid == last'.req.userId
                 key == last'.req.arg
                 ids == {sid \in DOMAIN Surveys :
                            Surveys[sid].survey_key = key /\ Surveys[sid].is_active}
             IN IF ids = {} \/ \E sid \in ids : CompletionCount(db, uid, sid) > 0
                THEN ~last'.success /\ db' = db
                ELSE /\ last'.success
                     /\ \E sid \in ids :
                           /\ db'.completed =
                                 Append(db.completed, [user_id |-> uid, survey_id |-> sid])
                           /\ db'.txns = Append(db.txns,
                                 [user_id |-> uid, transaction_type |-> "survey_reward",
                                  amount |-> Surveys[sid].reward_amount,
                                  reference_id |-> key, status |-> "completed"])
       /\ \A uid \in AllUserIds' : \A sid \in DOMAIN Surveys :
             /\ CompletionCount(db', uid, sid) <= 1
             /\ RewardCount(db', uid, Surveys[sid].survey_key) <= 1]_vars

\* the second call for the same (account, survey) returned FALSE
C31_Witness ==
    /\ last.kind = "process_survey_reward"
    /\ ~last.success
    /\ last.req.arg = "main_survey"
    /\ CompletionCount(db, last.req.userId, 1) = 1
    /\ RewardCount(db, last.req.userId, "main_survey") = 1

\* C32: every committed withdrawal request has an amount between the minimum
\* (5) and the configured maximum withdrawal amount (1000).
C32_AmountWithinLimits ==
    \A i \in DOMAIN db.wreqs :
        /\ db.wreqs[i].amount # NaN
        /\ MinWithdrawal <= db.wreqs[i].amount
        /\ db.wreqs[i].amount <= MaxWithdrawal

\* C33: whenever a withdrawal is answered with success, the answer is the
\* handler's own (not one a storage failure produced) and the committed state
\* holds a pending withdrawal request and a pending ledger debit of that
\* account and amount.
C33_WithdrawSuccessMeansCommitted ==
    (last.kind = "withdraw" /\ last.success)
    => /\ last.outcome = OkWithdraw
       /\ \E i \in DOMAIN db.wreqs :
             /\ db.wreqs[i].user_id = last.req.userId
             /\ db.wreqs[i].amount = last.req.amount
             /\ db.wreqs[i].status = "pending"
       /\ \E i \in DOMAIN db.txns :
             db.txns[i] = DebitEntry(last.req.userId, last.req.amount)

\* C34: when a submission executes its already-completed check, no other open
\* transaction has passed the upsert of the same account (it has committed or
\* rolled back, or has not reached the upsert), and if the committed state
\* holds the completion record of the (account, survey) the check rejects the
\* submission as already completed.
C34_CheckAfterFirstEnds ==
    [][\A c \in Conns :
          (conn[c].kind = "submit" /\ conn[c].pc = "check" /\ Steps(c))
          => /\ \A d \in Conns \ {c} : \A r \in conn[d].w.users :
                   r.id # conn[c].userId
             /\ CompletionCount(db, conn[c].userId, conn[c].surveyId) > 0
                => /\ last'.outcome = AlreadyCompleted
                   /\ ~last'.success
                   /\ ~Active(c)'
                   /\ db' = db]_vars

\* an account has a committed completion; two later submissions of it for
\* another survey overlapped, and the one that started later was answered
\* already-completed after the other one committed
C34_Witness ==
    /\ last.kind = "submit"
    /\ last.outcome = AlreadyCompleted
    /\ last.req.raced
    /\ Len(db.completed) = 2
    /\ \A i \in DOMAIN db.completed : db.completed[i].user_id = last.req.userId

\* the sum of the reward amounts of the committed completions of an account
CompletionRewards(d, uid) ==
    SumSeq([i \in DOMAIN d.completed |->
        IF d.completed[i].user_id = uid
        THEN Surveys[d.completed[i].survey_id].reward_amount ELSE 0])

\* C35: in histories without withdrawals, once every submission has finished
\* the stored balance of every account equals the sum of the reward amounts
\* of its committed completions, whatever the interleaving.
C35_NoLostCredit ==
    (/\ \A c \in Conns : ~Active(c)
     /\ \A i \in DOMAIN db.txns : ~IsDebit(db.txns[i]))
    => \A r \in db.users : r.balance = CompletionRewards(db, r.id)

\* two submissions of one account for different surveys overlapped and both
\* committed; the stored balance holds both rewards
C35_Witness ==
    /\ \A c \in Conns : ~Active(c)
    /\ \A i \in DOMAIN db.txns : ~IsDebit(db.txns[i])
    /\ last.kind = "submit" /\ last.outcome = OkSubmit
    /\ last.req.overlap /\ ~last.req.raced
    /\ Len(db.completed) = 2
    /\ \E r \in db.users : r.id = last.req.userId /\ r.balance = RewardMain + RewardOther

\* C36: no request ends while it keeps its connection: a handler that has
\* sent its answer and returned has released the client to the pool and has
\* left no transaction open on it.
C36_ConnectionReturned ==
    \A c \in Conns : Active(c) => conn[c].pc # "leaked"

\* C37: every request whose handler has ended was answered: no submit or
\* withdrawal request is left without a response, also when acquiring the
\* connection or the ROLLBACK of the error handler fails.
C37_EveryRequestAnswered ==
    last.outcome # Unanswered

\* the rows of table t of d that belong to account uid
RowsOf(d, t, uid) ==
    LET Mine(r) == r.user_id = uid IN SelectSeq(d[t], Mine)

\* everything of d that belongs to account uid
Belongings(d, uid) ==
    [users |-> {r \in d.users : r.id = uid},
     completed |-> RowsOf(d, "completed", uid),
     responses |-> RowsOf(d, "responses", uid),
     txns |-> RowsOf(d, "txns", uid),
     wreqs |-> RowsOf(d, "wreqs", uid),
     logs |-> RowsOf(d, "logs", uid)]

\* C38: a step of a request for account A changes nothing that belongs to
\* another account B: the users row, ledger entries, completion records,
\* answers, withdrawal requests and activity log entries of B change only in
\* a step of a request for B, and the pending writes of a request all belong
\* to its own account.
C38_AccountsIsolated ==
    [][/\ \A uid \in AllUserIds \cup AllUserIds' :
             Belongings(db', uid) # Belongings(db, uid)
             => \E c \in Conns :
                   /\ Active(c) /\ conn[c].userId = uid
                   /\ conn'[c] # conn[c]
       /\ \A c \in Conns : Active(c)' =>
             /\ \A r \in conn'[c].w.users : r.id = conn'[c].userId
             /\ \A t \in {"completed", "responses", "txns", "wreqs", "logs"} :
                   \A i \in DOMAIN conn'[c].w[t] :
                       conn'[c].w[t][i].user_id = conn'[c].userId]_vars

\* two accounts hold a completion and a reward each; a withdrawal of one of
\* them committed and the other account's balance is its own reward
C38_Witness ==
    /\ last.kind = "withdraw" /\ last.outcome = OkWithdraw
    /\ Len(db.completed) = 2
    /\ Len(db.wreqs) = 1
    /\ \E a, b \in db.users :
          /\ a.id = last.req.userId /\ b.id # a.id
          /\ b.balance = RewardMain
          /\ Len(RowsOf(db, "txns", b.id)) = 1
          /\ Len(RowsOf(db, "txns", a.id)) = 2

\* C39: for every ledger the value the submit transaction stores in
\* users.balance equals get_user_balance of schema.sql and get_user_balance
\* of the full schema.
C39_BalancesAgree ==
    last.kind = "recompute"
    => /\ \A r \in db.users : r.id = last.req.userId => r.balance = last.value
       /\ last.value = GetUserBalance(db.txns, last.req.userId)
       /\ last.value = GetUserBalanceFull(db.txns, last.req.userId)

====
